---- MODULE Spec2Model ----
(***************************************************************************)
(* Model of roles/openshift_health_checker/openshift_checks/               *)
(* disk_availability.py: the DiskAvailability health check.                *)
(*                                                                         *)
(* Strings that the code takes apart (filesystem paths) are tuples of      *)
(* one-character strings, so that os.path.dirname and sorted() are         *)
(* modelled by what they do to the characters.  Byte counts are counted    *)
(* in units of 10^8 bytes (Python integers are unbounded, TLC's are 32     *)
(* bits wide), so 10**9 bytes is GB = 10 units and every amount is a       *)
(* whole number of tenths of a gigabyte.                                   *)
(***************************************************************************)
EXTENDS Integers, Sequences, FiniteSets, TLC

\* ------------------------------------------------------------------ bounds
\* longest ansible_mounts list handed to run()
MaxMounts == 2
\* largest legacy (bare number) value of openshift_check_min_host_disk_gb
MaxGB == 3
\* how many levels deeper than max_depth the deepest path given to free_bytes is
MaxExtraDepth == 2

\* ------------------------------------------------- numbers of the program
\* 10**9 bytes (lines 19-43, 89, 104), in units of 10^8 bytes
GB == 10
\* max_depth = 32 (line 136)
MaxDepth == 32

\* ------------------------------------------------------ strings and paths
\* the characters used, in code point order ("/" is 0x2F, below every letter)
Alphabet == <<"/", "a", "b", "c", "d", "i", "l", "m", "n", "o", "p", "r", "s", "t", "u", "v">>

Ord(c) == CHOOSE i \in 1..Len(Alphabet) : Alphabet[i] = c

\* Python's s < t on strings: lexicographic by code point, a proper prefix first
RECURSIVE StrLess(_, _)
StrLess(s, t) ==
    IF t = <<>> THEN FALSE
    ELSE IF s = <<>> THEN TRUE
    ELSE IF Head(s) # Head(t) THEN Ord(Head(s)) < Ord(Head(t))
    ELSE StrLess(Tail(s), Tail(t))

Root == <<"/">>
VarPath == <<"/", "v", "a", "r">>
UsrLocalBin == <<"/", "u", "s", "r", "/", "l", "o", "c", "a", "l", "/", "b", "i", "n">>
\* tempfile.gettempdir() where TMPDIR is unset and /tmp is usable
TempDir == <<"/", "t", "m", "p">>

\* p[:i].rfind('/') + 1: the 1-based position of the last "/" among the first
\* i characters of p, 0 when there is none
RECURSIVE RFindSlash(_, _)
RFindSlash(p, i) ==
    IF i = 0 THEN 0
    ELSE IF p[i] = "/" THEN i
    ELSE RFindSlash(p, i - 1)

\* head.rstrip('/')
RECURSIVE RStripSlash(_)
RStripSlash(s) ==
    IF s # <<>> /\ s[Len(s)] = "/" THEN RStripSlash(SubSeq(s, 1, Len(s) - 1)) ELSE s

\* os.path.dirname (posixpath): everything up to the last "/", with the
\* trailing slashes removed unless the head is made of slashes only
dirname(p) ==
    LET head == SubSeq(p, 1, RFindSlash(p, Len(p)))
    IN IF head # <<>> /\ (\E i \in 1..Len(head) : head[i] # "/")
       THEN RStripSlash(head)
       ELSE head

\* ------------------------------------------------------------ dictionaries
EmptyDict == [k \in {} |-> 0]

\* d.get(k, default)
Get(d, k, default) == IF k \in DOMAIN d THEN d[k] ELSE default

\* max(..., default=0), which never raises
PyMax_default(S) ==
    [ok |-> TRUE, val |-> IF S = {} THEN 0 ELSE CHOOSE m \in S : \A x \in S : x <= m]

\* max(...) over a generator: ValueError on an empty one
PyMax(S) ==
    IF S = {} THEN [ok |-> FALSE, val |-> 0]
    ELSE [ok |-> TRUE, val |-> CHOOSE m \in S : \A x \in S : x <= m]

\* ------------------------------------------------------ requirement tables
\* the table with /usr/local/bin declared first
recommended_disk_space_bytes_reordered ==
    << [path |-> UsrLocalBin,
        recommendation |-> [masters |-> 1 * GB, nodes |-> 1 * GB, etcd |-> 1 * GB]],
       [path |-> VarPath,
        recommendation |-> [masters |-> 40 * GB, nodes |-> 15 * GB, etcd |-> 20 * GB]],
       [path |-> TempDir,
        recommendation |-> [masters |-> 1 * GB, nodes |-> 1 * GB, etcd |-> 1 * GB]] >>

\* recommended_disk_space_bytes.items(), in the order the literal declares
recommended_disk_space_bytes ==
    << [path |-> VarPath,
        recommendation |-> [masters |-> 40 * GB, nodes |-> 15 * GB, etcd |-> 20 * GB]],
       [path |-> UsrLocalBin,
        recommendation |-> [masters |-> 1 * GB, nodes |-> 1 * GB, etcd |-> 1 * GB]],
       [path |-> TempDir,
        recommendation |-> [masters |-> 1 * GB, nodes |-> 1 * GB, etcd |-> 1 * GB]] >>

\* the upgrade table with the install value left in for nodes
recommended_disk_upgrade_bytes_stale ==
    [p \in {VarPath} |-> [masters |-> 10 * GB, nodes |-> 15 * GB, etcd |-> 5 * GB]]

recommended_disk_upgrade_bytes ==
    [p \in {VarPath} |-> [masters |-> 10 * GB, nodes |-> 5 * GB, etcd |-> 5 * GB]]

\* ------------------------------------------------------------------ inputs
\* group_names is used only in a set intersection (line 53) and under max()
\* (lines 84, 89, 100): the order and repetition of the list do not matter
GroupNameSets == SUBSET {"masters", "nodes", "etcd", "lb"}

\* entries of the ansible_mounts fact; 500 = 50e9, 80 = 8e9, 20 = 2e9, 5 = 0.5e9 bytes
MountRecords ==
    { [mount |-> Root, size_available |-> 500],
      [mount |-> Root, size_available |-> 5],
      [mount |-> Root],
      [mount |-> VarPath, size_available |-> 80],
      [mount |-> VarPath, size_available |-> 20],
      [mount |-> VarPath, size_available |-> 500],
      [mount |-> TempDir, size_available |-> 5],
      [mount |-> TempDir, size_available |-> 500] }

MountLists == UNION {[1..n -> MountRecords] : n \in 0..MaxMounts}

\* structured values of openshift_check_min_host_disk_gb: path -> role -> GB
StructuredConfigs ==
    { EmptyDict,
      [p \in {VarPath} |-> [nodes |-> 20]],
      [p \in {VarPath} |-> [nodes |-> 1, etcd |-> 2]],
      [p \in {VarPath} |-> [masters |-> 3]],
      [p \in {VarPath} |-> [nodes |-> 0]],
      [p \in {UsrLocalBin, TempDir} |-> [masters |-> 2, nodes |-> 2]] }

Undefined == [type |-> "undefined"]

UserConfigs ==
    {Undefined}
    \cup {[type |-> "number", value |-> n] : n \in 0..MaxGB}
    \cup {[type |-> "dict", value |-> d] : d \in StructuredConfigs}

Contexts == {"", "install", "upgrade"}

\* ------------------------------------------------------------------- state
VARIABLES
    group_names,                       \* task variable group_names
    ansible_mounts,                    \* the fact (a list); run() rebinds it to a dict
    openshift_check_min_host_disk_gb,  \* task variable, possibly undefined
    playbook_context,                  \* r_openshift_health_checker_playbook_context
    super_is_active,                   \* what OpenShiftCheck.is_active() returns
    pc,                                \* where the check is
    user_config,                       \* run(): the override after lines 61-75
    idx,                               \* run(): position in the items of the table
    path,                              \* run(): loop variable; free_bytes(): argument
    mount_point,                       \* free_bytes(): local
    max_depth,                         \* free_bytes(): local
    free_bytes,                        \* what free_bytes() returned
    recommended_bytes,                 \* run(): local, the requirement of path
    config_bytes,                      \* run(): local, the override of path in bytes
    result,                            \* what run() returned
    error,                             \* the exception raised, if any
    log                                \* the calls made so far, in order

vars == <<group_names, ansible_mounts, openshift_check_min_host_disk_gb,
          playbook_context, super_is_active, pc, user_config, idx, path,
          mount_point, max_depth, free_bytes, recommended_bytes, config_bytes,
          result, error, log>>

\* self.get_var(name, default=...): the variable, or the default when undefined
get_var(v, default) == IF v = Undefined THEN default ELSE v

Init ==
    /\ group_names \in GroupNameSets
    /\ ansible_mounts \in MountLists
    /\ openshift_check_min_host_disk_gb \in UserConfigs
    /\ playbook_context \in Contexts
    /\ super_is_active \in BOOLEAN
    /\ pc = "start"
    /\ user_config = EmptyDict
    /\ idx = 0
    /\ path = <<>>
    /\ mount_point = <<>>
    /\ max_depth = 0
    /\ free_bytes = 0
    /\ recommended_bytes = 0
    /\ config_bytes = 0
    /\ result = EmptyDict
    /\ error = EmptyDict
    /\ log = <<>>

\* ---------------------------------------------------------------- is_active
active_groups ==
    UNION {DOMAIN recommended_disk_space_bytes[i].recommendation :
           i \in 1..Len(recommended_disk_space_bytes)}

has_disk_space_recommendation == (active_groups \cap group_names) # {}

\* is_active() without the check of the roles
is_active_base_only == super_is_active

is_active == super_is_active /\ has_disk_space_recommendation

\* the framework runs a check only when is_active() says so
IsActive ==
    /\ pc = "start"
    /\ pc' = IF is_active THEN "run" ELSE "skipped"
    /\ log' = Append(log, <<"is_active">>)
    /\ UNCHANGED <<group_names, ansible_mounts, openshift_check_min_host_disk_gb,
                   playbook_context, super_is_active, user_config, idx, path,
                   mount_point, max_depth, free_bytes, recommended_bytes,
                   config_bytes, result, error>>

\* --------------------------------------------------------------- free_bytes
\* ansible_mounts[mount_point]['size_available'] raises KeyError (line 142)
key_error(mp, mounts) ==
    IF mp \notin DOMAIN mounts THEN TRUE
    ELSE "size_available" \notin DOMAIN mounts[mp]

\* a loop that goes on past an entry without size_available
while_condition_needs_size(mp, depth, mounts) == key_error(mp, mounts) /\ depth > 0

\* a loop without the depth bound
while_condition_unbounded(mp, depth, mounts) == mp \notin DOMAIN mounts

\* the while condition of line 137
while_condition(mp, depth, mounts) == mp \notin DOMAIN mounts /\ depth > 0

\* sorted(ansible_mounts): the keys in ascending string order
RECURSIVE sorted(_)
sorted(S) ==
    IF S = {} THEN <<>>
    ELSE LET least == CHOOSE m \in S : \A x \in S \ {m} : StrLess(m, x)
         IN <<least>> \o sorted(S \ {least})

\* ', '.join(...)
RECURSIVE join(_, _)
join(sep, strs) ==
    IF strs = <<>> THEN <<>>
    ELSE IF Len(strs) = 1 THEN strs[1]
    ELSE strs[1] \o sep \o join(sep, Tail(strs))

\* '"{}"'.format(mount)
quoted(mount) == <<"\"">> \o mount \o <<"\"">>

\* line 144
known_mounts(mounts) ==
    LET keys == sorted(DOMAIN mounts)
        joined == join(<<",", " ">>, [i \in 1..Len(keys) |-> quoted(keys[i])])
    IN IF joined # <<>> THEN joined ELSE <<"n", "o", "n", "e">>

\* lines 145-146
mount_error(p, mounts) ==
    [exc |-> "OpenShiftCheckException",
     fmt |-> "Unable to determine disk availability for \"{}\". Known mount points: {}.",
     args |-> <<p, known_mounts(mounts)>>]

\* lines 137-139: one iteration of the loop
FreeBytesLoop ==
    /\ pc = "free_bytes"
    /\ while_condition(mount_point, max_depth, ansible_mounts)
    /\ mount_point' = dirname(mount_point)
    /\ max_depth' = max_depth - 1
    /\ UNCHANGED <<group_names, ansible_mounts, openshift_check_min_host_disk_gb,
                   playbook_context, super_is_active, pc, user_config, idx, path,
                   free_bytes, recommended_bytes, config_bytes, result, error, log>>

\* lines 141-148: the loop is over; return the size or raise
FreeBytesLookup ==
    /\ pc = "free_bytes"
    /\ ~while_condition(mount_point, max_depth, ansible_mounts)
    /\ IF key_error(mount_point, ansible_mounts)
       THEN /\ pc' = "raised"
            /\ error' = mount_error(path, ansible_mounts)
            /\ UNCHANGED free_bytes
       ELSE /\ pc' = "free_bytes_returned"
            /\ free_bytes' = ansible_mounts[mount_point].size_available
            /\ UNCHANGED error
    /\ UNCHANGED <<group_names, ansible_mounts, openshift_check_min_host_disk_gb,
                   playbook_context, super_is_active, user_config, idx, path,
                   mount_point, max_depth, recommended_bytes, config_bytes,
                   result, log>>

\* ---------------------------------------------------------------------- run
\* line 59: {mount['mount']: mount for mount in ansible_mounts}, a later
\* entry of the list replacing an earlier one of the same mount
index_mounts(list) ==
    [m \in {list[i].mount : i \in DOMAIN list} |->
        list[CHOOSE i \in DOMAIN list :
                /\ list[i].mount = m
                /\ \A j \in DOMAIN list : j > i => list[j].mount # m]]

\* the number applied to every monitored path
parse_user_config_every_path(uc) ==
    IF uc.type = "number"
    THEN [p \in {VarPath, UsrLocalBin, TempDir} |->
            [masters |-> uc.value, nodes |-> uc.value, etcd |-> uc.value]]
    ELSE uc.value

\* lines 62-75: float() accepts a number and raises TypeError on a dict
parse_user_config(uc) ==
    IF uc.type = "number"
    THEN [p \in {VarPath} |->
            [masters |-> uc.value, nodes |-> uc.value, etcd |-> uc.value]]
    ELSE uc.value

\* the stricter of the two instead of the first nonzero one
py_or_stricter(a, b) == IF a >= b THEN a ELSE b

\* a or b on numbers (lines 90, 100): a unless it is zero
py_or(a, b) == IF a # 0 THEN a ELSE b

\* lines 84-101: the requirement of one path; max() raises on no roles at all
requirement(p, recommendation, names, config_all, context) ==
    LET recommended == PyMax({Get(recommendation, name, 0) : name \in names})
        config == Get(config_all, p, EmptyDict)
        config_max == PyMax({Get(config, name, 0) : name \in names})
        cfg_bytes == config_max.val * GB
        recommended_1 == py_or(cfg_bytes, recommended.val)
        recommended_upgrade_paths == Get(recommended_disk_upgrade_bytes, p, EmptyDict)
        upgrade_max == PyMax({Get(recommended_upgrade_paths, name, 0) : name \in names})
        recommended_2 ==
            IF context = "upgrade" /\ recommended_upgrade_paths # EmptyDict
            THEN py_or(cfg_bytes, upgrade_max.val)
            ELSE recommended_1
    IN IF recommended.ok /\ config_max.ok /\ upgrade_max.ok
       THEN [raised |-> FALSE, config_bytes |-> cfg_bytes,
             recommended_bytes |-> recommended_2]
       ELSE [raised |-> TRUE, config_bytes |-> 0, recommended_bytes |-> 0]

\* <= in the place of <
is_deficient_or_equal(free, recommended) == free <= recommended

\* line 103
is_deficient(free, recommended) == free < recommended

\* '{:.1f}'.format(float(bytes) / 10**9)
format_gb(bytes) == ToString(bytes \div GB) \o "." \o ToString(bytes % GB)

\* lines 106-109 and 122-125
base_msg(p, free, recommended) ==
    [fmt |-> "Available disk space in \"{}\" ({:.1f} GB) is below minimum recommended ({:.1f} GB)",
     args |-> <<p, format_gb(free), format_gb(recommended)>>]

\* lines 114-118: msg += '...'.format(cfg_bytes)
with_guidance(msg, cfg_bytes) ==
    [fmt |-> msg.fmt \o "\n\nMake sure to account for decreased disk space during an upgrade\ndue to an existing OpenShift deployment. Please check the value of\n  openshift_check_min_host_disk_gb={}\nin your Ansible inventory, and lower the recommended disk space availability\nif necessary for this upgrade.",
     args |-> Append(msg.args, cfg_bytes)]

\* lines 104-126: the local msg gets the guidance, the dict returned is
\* formatted afresh from the base text
failure(p, free, recommended, cfg_bytes, context) ==
    LET msg == IF cfg_bytes # 0 /\ context = "upgrade"
               THEN with_guidance(base_msg(p, free, recommended), cfg_bytes)
               ELSE base_msg(p, free, recommended)
    IN [failed |-> TRUE, msg |-> base_msg(p, free, recommended)]

\* lines 57-83: read the variables, then enter the loop and call free_bytes
\* for the first path
RunSetup ==
    /\ pc = "run"
    /\ ansible_mounts' = index_mounts(ansible_mounts)
    /\ user_config' = parse_user_config(
            get_var(openshift_check_min_host_disk_gb, [type |-> "dict", value |-> EmptyDict]))
    /\ idx' = 1
    /\ path' = recommended_disk_space_bytes[1].path
    /\ mount_point' = recommended_disk_space_bytes[1].path
    /\ max_depth' = MaxDepth
    /\ pc' = "free_bytes"
    /\ log' = Append(log, <<"free_bytes", recommended_disk_space_bytes[1].path>>)
    /\ UNCHANGED <<group_names, openshift_check_min_host_disk_gb, playbook_context,
                   super_is_active, free_bytes, recommended_bytes, config_bytes,
                   result, error>>

\* lines 84-101: free_bytes has returned; work out the requirement of path
RunRequirement ==
    /\ pc = "free_bytes_returned"
    /\ LET r == requirement(path, recommended_disk_space_bytes[idx].recommendation,
                            group_names, user_config, playbook_context)
       IN IF r.raised
          THEN /\ pc' = "raised"
               /\ error' = [exc |-> "ValueError"]
               /\ UNCHANGED <<recommended_bytes, config_bytes>>
          ELSE /\ pc' = "compare"
               /\ recommended_bytes' = r.recommended_bytes
               /\ config_bytes' = r.config_bytes
               /\ UNCHANGED error
    /\ log' = Append(log, <<"requirement", path>>)
    /\ UNCHANGED <<group_names, ansible_mounts, openshift_check_min_host_disk_gb,
                   playbook_context, super_is_active, user_config, idx, path,
                   mount_point, max_depth, free_bytes, result>>

\* lines 103-128 and 82-83: fail on a deficient path, else go on to the
\* next path and call free_bytes for it, or return {} after the last one
RunCompare ==
    /\ pc = "compare"
    /\ IF is_deficient(free_bytes, recommended_bytes)
       THEN /\ pc' = "returned"
            /\ result' = failure(path, free_bytes, recommended_bytes, config_bytes,
                                 playbook_context)
            /\ log' = Append(log, <<"compare", path>>)
            /\ UNCHANGED <<idx, path, mount_point, max_depth>>
       ELSE IF idx < Len(recommended_disk_space_bytes)
       THEN /\ pc' = "free_bytes"
            /\ idx' = idx + 1
            /\ path' = recommended_disk_space_bytes[idx + 1].path
            /\ mount_point' = recommended_disk_space_bytes[idx + 1].path
            /\ max_depth' = MaxDepth
            /\ log' = log \o << <<"compare", path>>,
                                <<"free_bytes", recommended_disk_space_bytes[idx + 1].path>> >>
            /\ UNCHANGED result
       ELSE /\ pc' = "returned"
            /\ result' = EmptyDict
            /\ log' = Append(log, <<"compare", path>>)
            /\ UNCHANGED <<idx, path, mount_point, max_depth>>
    /\ UNCHANGED <<group_names, ansible_mounts, openshift_check_min_host_disk_gb,
                   playbook_context, super_is_active, user_config, free_bytes,
                   recommended_bytes, config_bytes, error>>

Next == IsActive \/ RunSetup \/ FreeBytesLoop \/ FreeBytesLookup \/ RunRequirement \/ RunCompare

Spec == Init /\ [][Next]_vars

\* ------------------------------------------- free_bytes called on its own
RECURSIVE Deep(_)
\* "/d/d/.../d" with n segments
Deep(n) == IF n = 0 THEN <<>> ELSE <<"/", "d">> \o Deep(n - 1)

FBPaths ==
    { Root, VarPath, UsrLocalBin, TempDir,
      <<>>,
      <<"a">>,
      <<"a", "/", "b">>,
      <<"/", "a", "/", "/", "b">>,
      <<"/", "a", "/", "b", "/">> }
    \cup {Deep(n) : n \in (MaxDepth - 1)..(MaxDepth + MaxExtraDepth)}
    \cup {<<"d">> \o Deep(n) : n \in (MaxDepth - 1)..(MaxDepth + MaxExtraDepth)}

FBMountPoints ==
    {Root, <<"/", "u", "s", "r">>, <<"/", "a">>, <<"a">>, <<"/", "d">>}

\* mount tables as free_bytes receives them: keyed by mount point, an entry
\* with its size_available (a different one for each mount point) or without
FBMountTables ==
    UNION { [S -> {"sized", "bare"}] : S \in SUBSET FBMountPoints }

FBTable(t) ==
    [m \in DOMAIN t |->
        IF t[m] = "sized"
        THEN [mount |-> m, size_available |-> 100 * (Len(m) + 1) + Ord(m[Len(m)])]
        ELSE [mount |-> m]]

InitFB ==
    /\ group_names = {}
    /\ \E t \in FBMountTables : ansible_mounts = FBTable(t)
    /\ openshift_check_min_host_disk_gb = Undefined
    /\ playbook_context = ""
    /\ super_is_active = TRUE
    /\ pc = "free_bytes"
    /\ user_config = EmptyDict
    /\ idx = 0
    /\ path \in FBPaths
    /\ mount_point = path
    /\ max_depth = MaxDepth
    /\ free_bytes = 0
    /\ recommended_bytes = 0
    /\ config_bytes = 0
    /\ result = EmptyDict
    /\ error = EmptyDict
    /\ log = << <<"free_bytes", path>> >>

NextFB == FreeBytesLoop \/ FreeBytesLookup

SpecFB == InitFB /\ [][NextFB]_vars

\* ============================================================== properties
\* what the properties are stated in: the roles and paths of the requirement
\* table, the nearest enclosing mount, and the requirement of a path

TableRoles == {"masters", "nodes", "etcd"}

MonitoredPaths == <<VarPath, UsrLocalBin, TempDir>>

Maximum(S) == CHOOSE m \in S : \A x \in S : x <= m

InstallBytes(p, role) ==
    IF role \notin TableRoles THEN 0
    ELSE IF p = VarPath
    THEN (CASE role = "masters" -> 400 [] role = "nodes" -> 150 [] role = "etcd" -> 200)
    ELSE 10

UpgradeBytes(role) ==
    CASE role = "masters" -> 100 [] role = "nodes" -> 50 [] role = "etcd" -> 50
      [] OTHER -> 0

Baseline(p, roles, context) ==
    IF context = "upgrade" /\ p = VarPath
    THEN Maximum({UpgradeBytes(r) : r \in roles})
    ELSE Maximum({InstallBytes(p, r) : r \in roles})

OverrideGB(p, roles, config) ==
    IF p \in DOMAIN config
    THEN Maximum({IF r \in DOMAIN config[p] THEN config[p][r] ELSE 0 : r \in roles})
    ELSE 0

Effective(p, roles, config, context) ==
    IF OverrideGB(p, roles, config) # 0
    THEN OverrideGB(p, roles, config) * 10
    ELSE Baseline(p, roles, context)

\* p and the ancestors of p that k parent steps reach
RECURSIVE Ancestors(_, _)
Ancestors(p, k) == {p} \cup (IF k = 0 THEN {} ELSE Ancestors(dirname(p), k - 1))

MatchingAncestors(p, mounts) == Ancestors(p, 32) \cap DOMAIN mounts

\* the nearest of them is the longest: every parent step shortens the path
Nearest(p, mounts) ==
    LET matching == MatchingAncestors(p, mounts)
    IN CHOOSE a \in matching : \A b \in matching : Len(b) <= Len(a)

Resolves(p, mounts) ==
    /\ MatchingAncestors(p, mounts) # {}
    /\ "size_available" \in DOMAIN mounts[Nearest(p, mounts)]

Observed(p, mounts) == mounts[Nearest(p, mounts)].size_available

GBText(bytes) == ToString(bytes \div 10) \o "." \o ToString(bytes % 10)

BaseText == "Available disk space in \"{}\" ({:.1f} GB) is below minimum recommended ({:.1f} GB)"

Running == pc \notin {"start", "skipped", "run"}

Finished == pc \in {"returned", "raised"}

Passed == pc = "returned" /\ result = EmptyDict

Failed == pc = "returned" /\ result # EmptyDict

\* C1: a host with none of the roles masters, nodes, etcd is never active,
\* whatever the base class says: the check is skipped, run() makes no call
\* and leaves no result and no error; a host with one of these roles is
\* active exactly when the base class says so.
C1_ActivationGate ==
    /\ group_names \cap TableRoles = {} =>
          /\ ~is_active
          /\ pc \in {"start", "skipped"}
          /\ result = EmptyDict /\ error = EmptyDict
          /\ \A i \in 1..Len(log) : log[i] = <<"is_active">>
    /\ group_names \cap TableRoles # {} =>
          /\ is_active = super_is_active
          /\ pc # "start" => ((pc = "skipped") <=> ~super_is_active)

C1_Witness ==
    /\ pc = "skipped" /\ super_is_active /\ group_names = {"lb"}

\* C2: when every monitored path resolves, run() returns; it returns {} iff
\* every monitored path has at least its effective requirement free, and
\* otherwise {failed: true, msg} where msg is the base text naming a path
\* with less free than required, with both amounts in gigabytes.
C2_VerdictCorrect ==
    (Finished /\ \A i \in 1..3 : Resolves(MonitoredPaths[i], ansible_mounts)) =>
        /\ pc = "returned"
        /\ (result = EmptyDict) <=>
              \A i \in 1..3 :
                  Observed(MonitoredPaths[i], ansible_mounts)
                      >= Effective(MonitoredPaths[i], group_names, user_config, playbook_context)
        /\ result # EmptyDict =>
              /\ DOMAIN result = {"failed", "msg"}
              /\ result.failed = TRUE
              /\ \E i \in 1..3 :
                    LET p == MonitoredPaths[i]
                        free == Observed(p, ansible_mounts)
                        need == Effective(p, group_names, user_config, playbook_context)
                    IN /\ free < need
                       /\ result.msg = [fmt |-> BaseText,
                                        args |-> <<p, GBText(free), GBText(need)>>]

C2_Witness ==
    /\ Failed
    /\ group_names = {"nodes"} /\ playbook_context = "install"
    /\ openshift_check_min_host_disk_gb = Undefined
    /\ DOMAIN ansible_mounts = {Root, VarPath}
    /\ ansible_mounts[Root] = [mount |-> Root, size_available |-> 500]
    /\ ansible_mounts[VarPath] = [mount |-> VarPath, size_available |-> 80]
    /\ result.msg.args = <<VarPath, "8.0", "15.0">>

\* C3: when the requirement of a path has been worked out, a nonzero maximum
\* of the override over the host's roles, times 10^9, is the requirement in
\* every context; a zero maximum leaves the baseline of the context.
C3_OverridePrecedence ==
    pc = "compare" =>
        LET o == OverrideGB(path, group_names, user_config)
        IN /\ config_bytes = o * 10
           /\ o # 0 => recommended_bytes = o * 10
           /\ o = 0 => recommended_bytes = Baseline(path, group_names, playbook_context)

C3_Witness ==
    /\ pc = "compare" /\ playbook_context = "upgrade" /\ path = VarPath
    /\ group_names = {"nodes"}
    /\ openshift_check_min_host_disk_gb.type = "dict"
    /\ recommended_bytes = 10

\* C4: with no override in effect, the requirement of /var under the context
\* "upgrade" is the largest upgrade value of the host's roles; under any
\* other context, and for the other paths under every context, it is the
\* largest install value.
C4_BaselineByContext ==
    (pc = "compare" /\ config_bytes = 0) =>
        /\ (playbook_context = "upgrade" /\ path = VarPath) =>
              recommended_bytes = Maximum({UpgradeBytes(r) : r \in group_names})
        /\ (playbook_context = "upgrade" /\ path # VarPath) =>
              recommended_bytes = Maximum({InstallBytes(path, r) : r \in group_names})
        /\ playbook_context # "upgrade" =>
              recommended_bytes = Maximum({InstallBytes(path, r) : r \in group_names})

C4_Witness ==
    /\ Passed
    /\ group_names = {"nodes"} /\ playbook_context = "upgrade"
    /\ openshift_check_min_host_disk_gb = Undefined
    /\ DOMAIN ansible_mounts = {Root, VarPath}
    /\ ansible_mounts[VarPath] = [mount |-> VarPath, size_available |-> 80]

\* C5 (as the claim states it): a failure under the context "upgrade" with a
\* nonzero override returns the base text followed by the guidance; every
\* other failure returns the base text alone.
C5_GuidanceReturned ==
    Failed =>
        result.msg.fmt =
            IF playbook_context = "upgrade" /\ config_bytes # 0
            THEN with_guidance([fmt |-> BaseText, args |-> <<>>], config_bytes).fmt
            ELSE BaseText

\* C6: a bare number N becomes the override {/var: {masters: N, nodes: N,
\* etcd: N}} and nothing else: the requirement of /var is N * 10^9 (the
\* baseline when N is 0), the other paths keep 1 * 10^9.
C6_LegacyNumber ==
    (Running /\ openshift_check_min_host_disk_gb.type = "number") =>
        LET N == openshift_check_min_host_disk_gb.value
        IN /\ DOMAIN user_config = {VarPath}
           /\ DOMAIN user_config[VarPath] = TableRoles
           /\ \A r \in TableRoles : user_config[VarPath][r] = N
           /\ pc = "compare" =>
                 IF path = VarPath
                 THEN recommended_bytes =
                          IF N # 0 THEN N * 10
                          ELSE Baseline(path, group_names, playbook_context)
                 ELSE config_bytes = 0 /\ recommended_bytes = 10

C6_Witness ==
    /\ Failed
    /\ openshift_check_min_host_disk_gb = [type |-> "number", value |-> 3]
    /\ group_names = {"masters"}
    /\ result.msg.args = <<VarPath, "2.0", "3.0">>

\* C7: free_bytes returns the size_available of the nearest key among the
\* path and the ancestors that 32 parent steps reach; when that nearest entry
\* has no size_available it raises instead of going further up.
C7_NearestMount ==
    (pc \in {"free_bytes_returned", "raised"}
        /\ MatchingAncestors(path, ansible_mounts) # {}) =>
        LET near == Nearest(path, ansible_mounts)
        IN IF "size_available" \in DOMAIN ansible_mounts[near]
           THEN /\ pc = "free_bytes_returned"
                /\ free_bytes = ansible_mounts[near].size_available
                /\ mount_point = near
           ELSE /\ pc = "raised"
                /\ error.exc = "OpenShiftCheckException"
                /\ mount_point = near

C7_Witness ==
    /\ pc = "free_bytes_returned"
    /\ path = UsrLocalBin
    /\ DOMAIN ansible_mounts = {Root, <<"/", "u", "s", "r">>, <<"/", "a">>}
    /\ mount_point = <<"/", "u", "s", "r">>
    /\ free_bytes = ansible_mounts[<<"/", "u", "s", "r">>].size_available
    /\ "size_available" \in DOMAIN ansible_mounts[Root]

\* the keys in ascending order, each by the number of keys below it
Ranked(keys) ==
    [i \in 1..Cardinality(keys) |->
        CHOOSE k \in keys : Cardinality({x \in keys : StrLess(x, k)}) = i - 1]

RECURSIVE Listing(_)
Listing(s) ==
    IF Len(s) = 0 THEN <<"n", "o", "n", "e">>
    ELSE IF Len(s) = 1 THEN <<"\"">> \o s[1] \o <<"\"">>
    ELSE Listing(SubSeq(s, 1, Len(s) - 1)) \o <<",", " ", "\"">> \o s[Len(s)] \o <<"\"">>

\* C8: free_bytes takes at most 32 parent steps (max_depth counts down from
\* 32 and never goes below 0) and the loop is over once they are taken; with
\* no key matched it raises the error that names the path and lists the
\* mount points in ascending order joined by ", ", or "none" for an empty
\* table.
C8_BoundedAscent ==
    /\ pc \in {"free_bytes", "free_bytes_returned", "raised"} =>
          max_depth \in 0..32
    /\ (pc = "free_bytes" /\ max_depth = 0) =>
          ~while_condition(mount_point, max_depth, ansible_mounts)
    /\ (pc \in {"free_bytes_returned", "raised"}
          /\ MatchingAncestors(path, ansible_mounts) = {}) => pc = "raised"
    /\ pc = "raised" =>
          error = [exc |-> "OpenShiftCheckException",
                   fmt |-> "Unable to determine disk availability for \"{}\". Known mount points: {}.",
                   args |-> <<path, Listing(Ranked(DOMAIN ansible_mounts))>>]

C8_Witness ==
    /\ pc = "raised" /\ max_depth = 0
    /\ path = Deep(33)
    /\ DOMAIN ansible_mounts = {Root, <<"/", "u", "s", "r">>, <<"/", "a">>}
    /\ error.args[2] = <<"\"", "/", "\"", ",", " ", "\"", "/", "a", "\"", ",", " ",
                         "\"", "/", "u", "s", "r", "\"">>

\* the calls of a run that examines every path
FullLog ==
    << <<"is_active">>,
       <<"free_bytes", VarPath>>, <<"requirement", VarPath>>, <<"compare", VarPath>>,
       <<"free_bytes", UsrLocalBin>>, <<"requirement", UsrLocalBin>>, <<"compare", UsrLocalBin>>,
       <<"free_bytes", TempDir>>, <<"requirement", TempDir>>, <<"compare", TempDir>> >>

\* the monitored paths that do not resolve or have too little free
BadPaths ==
    {i \in 1..3 :
        \/ ~Resolves(MonitoredPaths[i], ansible_mounts)
        \/ Observed(MonitoredPaths[i], ansible_mounts)
              < Effective(MonitoredPaths[i], group_names, user_config, playbook_context)}

\* C9: the paths are examined in the order /var, /usr/local/bin, temp dir,
\* each resolved before it is compared; the first path that does not resolve
\* or is deficient decides the outcome (the error, with no verdict, or the
\* failure naming it) and nothing is examined after it; {} is returned only
\* after all three have been resolved and compared.
C9_OrderAndShortCircuit ==
    /\ Len(log) <= Len(FullLog) /\ log = SubSeq(FullLog, 1, Len(log))
    /\ Passed => log = FullLog
    /\ (Running /\ Finished) =>
          IF BadPaths = {}
          THEN Passed
          ELSE LET first == CHOOSE i \in BadPaths : \A j \in BadPaths : i <= j
               IN IF ~Resolves(MonitoredPaths[first], ansible_mounts)
                  THEN /\ pc = "raised"
                       /\ result = EmptyDict
                       /\ error.exc = "OpenShiftCheckException"
                       /\ error.args[1] = MonitoredPaths[first]
                       /\ log[Len(log)] = <<"free_bytes", MonitoredPaths[first]>>
                  ELSE /\ Failed
                       /\ error = EmptyDict
                       /\ result.msg.args[1] = MonitoredPaths[first]
                       /\ log[Len(log)] = <<"compare", MonitoredPaths[first]>>

C9_Witness ==
    /\ pc = "raised"
    /\ group_names = {"etcd"}
    /\ DOMAIN ansible_mounts = {VarPath, TempDir}
    /\ ansible_mounts[VarPath] = [mount |-> VarPath, size_available |-> 500]
    /\ ansible_mounts[TempDir] = [mount |-> TempDir, size_available |-> 5]
    /\ error.args[1] = UsrLocalBin
    /\ Len(log) = 5

\* C10: past the gate the host has a role, so no max() of run() is taken
\* over nothing and run() never raises ValueError; the override of a path on
\* which none of the host's roles is listed counts as 0; with no role at all
\* the requirement of every path is undefined (max() raises).
C10_GateProtectsRun ==
    /\ is_active => group_names # {}
    /\ pc \notin {"start", "skipped"} => group_names # {}
    /\ error # [exc |-> "ValueError"]
    /\ (pc = "compare"
          /\ \A r \in group_names : r \notin DOMAIN Get(user_config, path, EmptyDict)) =>
          config_bytes = 0
    /\ \A i \in 1..Len(recommended_disk_space_bytes) :
          LET item == recommended_disk_space_bytes[i]
          IN /\ requirement(item.path, item.recommendation, {}, user_config,
                            playbook_context).raised
             /\ group_names # {} =>
                   ~requirement(item.path, item.recommendation, group_names,
                                user_config, playbook_context).raised

C10_Witness ==
    /\ pc = "compare" /\ path = VarPath
    /\ group_names = {"nodes", "lb"}
    /\ DOMAIN Get(user_config, VarPath, EmptyDict) = {"masters"}
    /\ config_bytes = 0 /\ recommended_bytes = 150

====
